---- MODULE Spec2Model ----
(***************************************************************************)
(* Service tracker: the storage providers (MemStorage, DatabaseStorage),   *)
(* the insert schemas and the HTTP routes of the server, and the client's  *)
(* uploadFiles, as a state machine.  One action is one atomic step of a    *)
(* handler: a handler that awaits the database twice (attachment append,   *)
(* delete) is two steps, and other requests may run between them; the      *)
(* client's upload is one step per request it awaits.                      *)
(***************************************************************************)
EXTENDS Integers, Sequences, FiniteSets, TLC

\* ------------------------------------------------------------------ bounds
MaxRequests == 2      \* service requests ever created in one behaviour
MaxClock == 1         \* the clock (milliseconds) runs 0..MaxClock
MaxAttachments == 2   \* longest attachments list a request may reach
MaxCalls == 2         \* attachment-append requests served in one behaviour
MaxComments == 2      \* comments ever created in one behaviour
MaxQuery == 2         \* longest search query
MaxFiles == 2         \* most files handed to one uploadFiles call
MaxTargets == 2       \* upload targets other callers may take
MaxSubmits == 2       \* submissions of the create-request form in one behaviour
MaxMutations == 3     \* mutations the page starts in one behaviour
MaxObjects == 2       \* objects that references may name

VARIABLES
    variant,          \* which storage module the server loaded: "mem" or "db"
    serviceRequests,  \* id -> ServiceRequest (the Map / the service_requests table)
    comments,         \* id -> Comment (the Map / the comments table)
    nextId,           \* the next fresh request id (randomUUID / gen_random_uuid)
    nextCommentId,    \* the next fresh comment id
    now,              \* the clock read by new Date() and now()
    calls,            \* slot -> an attachment-append request in flight
    deleting,         \* the deleteServiceRequest call in flight, if any
    response,         \* the last response the server (or the provider) gave
    upload,           \* the client's uploadFiles call
    objectStore,      \* the object store: upload targets issued, objects stored
    form,             \* the client's create-request form and its submissions
    cache,            \* the client's query cache and the mutation it awaits
    shown             \* the attachment reference the client resolved last

vars == <<variant, serviceRequests, comments, nextId, nextCommentId, now,
          calls, deleting, response, upload, objectStore, form, cache,
          shown>>

\* ------------------------------------------------------------------ schema
Statuses == {"new", "inspection", "service", "received", "completed"}

RequiredText == {"productName", "serialNumber", "customerName",
                 "customerContact", "issueDescription"}

\* The columns of service_requests.
Columns == RequiredText \cup {"id", "status", "attachments", "createdAt", "updatedAt"}

\* insertServiceRequestSchema: the table's columns without id, createdAt, updatedAt.
InsertKeys == Columns \ {"id", "createdAt", "updatedAt"}

\* The columns of comments, and insertCommentSchema's keys.
CommentColumns == {"id", "serviceRequestId", "text", "createdAt"}

InsertCommentKeys == CommentColumns \ {"id", "createdAt"}

Ids == 1..MaxRequests

Refs == {"ref1", "ref2"}

\* A JSON object restricted to some of its keys.
Restrict(obj, keys) == [k \in DOMAIN obj \cap keys |-> obj[k]]

\* insertServiceRequestSchema.parse: every required text column must be present;
\* status is an optional string (any string), attachments an optional array;
\* keys outside the schema are stripped.
insertServiceRequestSchemaOk(body) == RequiredText \subseteq DOMAIN body

insertServiceRequestSchema(body) == Restrict(body, InsertKeys)

insertCommentSchemaOk(body) == InsertCommentKeys \subseteq DOMAIN body

insertCommentSchema(body) == Restrict(body, InsertCommentKeys)

\* ------------------------------------------------------------------ inputs
PumpX == [productName |-> "Pump-X", serialNumber |-> "SN1", customerName |-> "Acme",
          customerContact |-> "a@x.com", issueDescription |-> "leak"]

\* Request bodies of POST /api/service-requests.
CreateBodies ==
    {PumpX}
    \cup {[status |-> s] @@ PumpX : s \in Statuses \cup {"bogus", ""}}
    \cup {[attachments |-> <<"ref1">>] @@ PumpX}
    \cup {[id |-> 2, createdAt |-> 0] @@ PumpX}
    \cup {Restrict(PumpX, RequiredText \ {"serialNumber"})}

\* Request bodies of PATCH /api/service-requests/:id.
StatusPatches ==
    {[status |-> s] : s \in {"completed", "inspection", "bogus"}}
    \cup {[status |-> "completed", updatedAt |-> 0]}

FieldPatches ==
    {[customerName |-> "Beta", issueDescription |-> "noise"],
     [status |-> "completed", attachments |-> <<"ref2">>]}

\* Request bodies of POST /api/service-requests/:id/attachments: an array under
\* "attachments", no such key, or a string there instead of an array (a value
\* that is no array is written under the key "attachments:string", so that every
\* value under "attachments" is a sequence).
AppendBodies ==
    {[attachments |-> <<r>>] : r \in Refs}
    \cup {[attachments |-> <<>>], [other |-> <<"ref1">>]}
    \cup {[k \in {"attachments:string"} |-> "ref1"]}

\* An id the server never allots.
ForeignId == 0

\* PATCH bodies that carry the server's own fields (id, createdAt), or a key that
\* is no column of the table.
IdentityPatches ==
    {[id |-> i] : i \in Ids \cup {ForeignId}}
    \cup {[createdAt |-> t] : t \in 0..MaxClock}
    \cup {[status |-> "inspection"], [priority |-> "high"]}

\* Request bodies of POST /api/service-requests/:id/comments; the client sends
\* { text, attachments }.
CommentBodies ==
    {[text |-> "hello"], [note |-> "hello"],
     [text |-> "hello", attachments |-> <<"ref1">>],
     [text |-> "hello", attachments |-> <<>>]}

\* Text as the search sees it, character by character: a letter in both cases,
\* another letter, the two wildcards of LIKE, and a letter that only an issue
\* description holds.
Alphabet == {"a", "A", "b", "c", "_", "%"}

\* The q of GET /api/service-requests/search?q=..., the empty one included.
Queries == UNION {[1..n -> Alphabet] : n \in 0..MaxQuery}

\* Request bodies of POST /api/service-requests whose text the search can read.
Widget ==
    [productName |-> <<"A", "b">>, serialNumber |-> <<"b">>, customerName |-> <<"b">>,
     customerContact |-> <<"b", "b">>, issueDescription |-> <<"c">>]

SearchBodies ==
    {Widget,
     [productName |-> <<"b">>, serialNumber |-> <<"a", "_">>, customerName |-> <<"b">>,
      customerContact |-> <<"%">>, issueDescription |-> <<"A">>]}

\* The files a user may select, and the lists handed to uploadFiles.
Files == {"a.png", "b.png"}

FileLists == UNION {[1..n -> Files] : n \in 0..MaxFiles}

\* ------------------------------------------------------------------ storage
\* What a provider method returns for "no such record".
Undefined == [undefined |-> TRUE]

IsUndefined(x) == DOMAIN x = {"undefined"}

\* Where the record with this id is kept: under the Map's key id (whatever the
\* record's own id field says), or in the row whose id column has this value (the
\* primary key admits at most one).
Keys(id) ==
    IF variant = "db"
    THEN {k \in DOMAIN serviceRequests : serviceRequests[k].id = id}
    ELSE DOMAIN serviceRequests \cap {id}

Stored(id) ==
    IF variant = "db"
    THEN \E k \in DOMAIN serviceRequests : serviceRequests[k].id = id
    ELSE id \in DOMAIN serviceRequests

KeyOf(id) ==
    IF variant = "db"
    THEN CHOOSE k \in DOMAIN serviceRequests : serviceRequests[k].id = id
    ELSE id

\* Map.get / SELECT ... WHERE id = $1: the record, or undefined.
getServiceRequest(id) ==
    IF Stored(id) THEN serviceRequests[KeyOf(id)] ELSE Undefined

\* The stored records in insertion order (Map iteration order; keys are allotted
\* in increasing order and re-setting a key keeps its place).
RECURSIVE ValuesFrom(_)
ValuesFrom(k) ==
    IF k >= nextId THEN <<>>
    ELSE (IF k \in DOMAIN serviceRequests THEN <<serviceRequests[k]>> ELSE <<>>)
         \o ValuesFrom(k + 1)

Values == ValuesFrom(1)

\* One insertion of a stable sort by createdAt, newest first: r goes after every
\* record that is not older than it.
RECURSIVE InsertDesc(_, _)
InsertDesc(r, sorted) ==
    IF sorted = <<>> THEN <<r>>
    ELSE IF Head(sorted).createdAt >= r.createdAt
         THEN <<Head(sorted)>> \o InsertDesc(r, Tail(sorted))
         ELSE <<r>> \o sorted

\* Array.prototype.sort((a, b) => b.createdAt - a.createdAt), which is stable;
\* ORDER BY created_at DESC, with ties in insertion order.
RECURSIVE SortDesc(_)
SortDesc(seq) ==
    IF seq = <<>> THEN <<>>
    ELSE InsertDesc(seq[Len(seq)], SortDesc(SubSeq(seq, 1, Len(seq) - 1)))

IsCompleted(r) == r.status = "completed"

IsActive(r) == r.status /= "completed"

\* A variant that returns the records as the Map iterates them, unsorted.
getAllServiceRequests_unsorted == Values

getAllServiceRequests == SortDesc(Values)

\* A variant that lists the four active statuses instead of excluding "completed".
getActiveServiceRequests_listed ==
    LET Listed(r) == r.status \in {"new", "inspection", "service", "received"}
    IN  SortDesc(SelectSeq(Values, Listed))

getActiveServiceRequests == SortDesc(SelectSeq(Values, IsActive))

getCompletedServiceRequests == SortDesc(SelectSeq(Values, IsCompleted))

\* The four fields both providers search.
SearchableFields == {"customerContact", "serialNumber", "customerName", "productName"}

\* String.prototype.toLowerCase
toLowerCase(text) == [i \in 1..Len(text) |-> IF text[i] = "A" THEN "a" ELSE text[i]]

\* String.prototype.includes
includes(text, query) ==
    \E i \in 0..(Len(text) - Len(query)) : SubSeq(text, i + 1, i + Len(query)) = query

\* text ILIKE pattern: % stands for any run of characters, _ for any one character,
\* every other character for itself in either case.
RECURSIVE ilike(_, _)
ilike(text, pattern) ==
    IF pattern = <<>> THEN text = <<>>
    ELSE IF Head(pattern) = "%"
         THEN ilike(text, Tail(pattern)) \/ (text /= <<>> /\ ilike(Tail(text), pattern))
         ELSE /\ text /= <<>>
              /\ (Head(pattern) = "_"
                     \/ toLowerCase(<<Head(pattern)>>) = toLowerCase(<<Head(text)>>))
              /\ ilike(Tail(text), Tail(pattern))

\* MemStorage.searchServiceRequests: filter by includes on the lower-cased fields.
MemStorage_searchServiceRequests(query) ==
    LET lowercaseQuery == toLowerCase(query)
        Hit(request) ==
            \E field \in SearchableFields :
                includes(toLowerCase(request[field]), lowercaseQuery)
    IN  SortDesc(SelectSeq(Values, Hit))

\* DatabaseStorage.searchServiceRequests: WHERE field ILIKE `%${query}%` OR ...
DatabaseStorage_searchServiceRequests(query) ==
    LET Hit(request) ==
            \E field \in SearchableFields :
                ilike(request[field], <<"%">> \o query \o <<"%">>)
    IN  SortDesc(SelectSeq(Values, Hit))

searchServiceRequests(query) ==
    IF variant = "db"
    THEN DatabaseStorage_searchServiceRequests(query)
    ELSE MemStorage_searchServiceRequests(query)

\* requests.filter(r => r.status === status).length
Count(requests, status) ==
    LET HasStatus(r) == r.status = status
    IN  Len(SelectSeq(requests, HasStatus))

\* A variant that counts every request, completed ones too, as active.
getMetrics_countsAll ==
    LET allRequests == getAllServiceRequests
    IN  [totalActive |-> Len(allRequests),
         newComplaints |-> Count(allRequests, "new"),
         underInspection |-> Count(allRequests, "inspection"),
         sentToService |-> Count(allRequests, "service"),
         received |-> Count(allRequests, "received")]

getMetrics ==
    LET activeRequests == getActiveServiceRequests
    IN  [totalActive |-> Len(activeRequests),
         newComplaints |-> Count(activeRequests, "new"),
         underInspection |-> Count(activeRequests, "inspection"),
         sentToService |-> Count(activeRequests, "service"),
         received |-> Count(activeRequests, "received")]

\* JavaScript's a || b on a string: the empty string is falsy.
OrElse(obj, key, default) ==
    IF key \in DOMAIN obj /\ obj[key] /= "" THEN obj[key] ELSE default

\* The record createServiceRequest stores for a validated insert payload:
\* { ...insert, id, status: insert.status || "new",
\*   attachments: insert.attachments || [], createdAt: now, updatedAt: now }.
\* A variant that ignores the supplied status.
NewServiceRequest_alwaysNew(insert, id) ==
    [id |-> id,
     status |-> "new",
     attachments |-> IF "attachments" \in DOMAIN insert THEN insert.attachments ELSE <<>>,
     createdAt |-> now,
     updatedAt |-> now] @@ insert

NewServiceRequest(insert, id) ==
    [id |-> id,
     status |-> OrElse(insert, "status", "new"),
     attachments |-> IF "attachments" \in DOMAIN insert THEN insert.attachments ELSE <<>>,
     createdAt |-> now,
     updatedAt |-> now] @@ insert

\* createServiceRequest: a fresh id, the record stored under it.
createServiceRequest(insert) ==
    /\ serviceRequests' = (nextId :> NewServiceRequest(insert, nextId)) @@ serviceRequests
    /\ nextId' = nextId + 1

\* A variant with the spreads in the other order: { ...updates, ...existing }.
Merged_existingWins(existing, updates) ==
    [updatedAt |-> now]
    @@ existing
    @@ (IF variant = "db" THEN Restrict(updates, Columns) ELSE updates)

\* A variant that re-applies the creation default: status: updates.status || "new".
Merged_reappliesDefault(existing, updates) ==
    [updatedAt |-> now, status |-> OrElse(updates, "status", "new")]
    @@ (IF variant = "db" THEN Restrict(updates, Columns) ELSE updates)
    @@ existing

\* { ...existing, ...updates, updatedAt: new Date() } as each provider makes it.
\* The table takes only its own columns from the payload; the Map keeps every key.
MergedBy(provider, existing, updates) ==
    [updatedAt |-> now]
    @@ (IF provider = "db" THEN Restrict(updates, Columns) ELSE updates)
    @@ existing

Merged(existing, updates) == MergedBy(variant, existing, updates)

\* What updateServiceRequest returns: the updated record, or undefined.
Updated(id, updates) ==
    IF Stored(id)
    THEN Merged(serviceRequests[KeyOf(id)], updates)
    ELSE Undefined

\* A variant without the existence check: Map.set(id, ...) for any id.
updateServiceRequest_upsert(id, updates) ==
    serviceRequests' =
        IF Stored(id)
        THEN [serviceRequests EXCEPT ![KeyOf(id)] = Updated(id, updates)]
        ELSE (id :> ([updatedAt |-> now] @@ updates)) @@ serviceRequests

\* updateServiceRequest: Map.set(id, updated) / UPDATE ... WHERE id = $1.
updateServiceRequest(id, updates) ==
    serviceRequests' =
        IF Stored(id)
        THEN [serviceRequests EXCEPT ![KeyOf(id)] = Updated(id, updates)]
        ELSE serviceRequests

\* The comments of one request (their ids).
CommentsOf(id) == {c \in DOMAIN comments : comments[c].serviceRequestId = id}

\* The stored comments in insertion order.
RECURSIVE CommentValuesFrom(_)
CommentValuesFrom(k) ==
    IF k >= nextCommentId THEN <<>>
    ELSE (IF k \in DOMAIN comments THEN <<comments[k]>> ELSE <<>>)
         \o CommentValuesFrom(k + 1)

CommentValues == CommentValuesFrom(1)

\* One insertion of a stable sort by createdAt, oldest first.
RECURSIVE InsertAsc(_, _)
InsertAsc(c, sorted) ==
    IF sorted = <<>> THEN <<c>>
    ELSE IF Head(sorted).createdAt <= c.createdAt
         THEN <<Head(sorted)>> \o InsertAsc(c, Tail(sorted))
         ELSE <<c>> \o sorted

\* sort((a, b) => a.createdAt - b.createdAt) / ORDER BY created_at ASC
RECURSIVE SortAsc(_)
SortAsc(seq) ==
    IF seq = <<>> THEN <<>>
    ELSE InsertAsc(seq[Len(seq)], SortAsc(SubSeq(seq, 1, Len(seq) - 1)))

\* getCommentsByServiceRequestId: the comments of one request, oldest first.
getCommentsByServiceRequestId(serviceRequestId) ==
    LET Of(comment) == comment.serviceRequestId = serviceRequestId
    IN  SortAsc(SelectSeq(CommentValues, Of))

\* createComment: { ...insert, id, createdAt: new Date() }.
createComment(insert) ==
    /\ comments' = (nextCommentId :> ([id |-> nextCommentId, createdAt |-> now] @@ insert))
                   @@ comments
    /\ nextCommentId' = nextCommentId + 1

\* A variant without the reference: the table takes any serviceRequestId.
ForeignKeyOk_unchecked(serviceRequestId) == TRUE

\* The foreign key comments.service_request_id -> service_requests.id, which the
\* table enforces and the Map does not.
ForeignKeyOk(serviceRequestId) ==
    variant = "db" => Stored(serviceRequestId)

\* What makes the table's UPDATE throw, which the Map's never does: a createdAt
\* from a JSON payload (no Date, so the timestamp column cannot encode it), an id
\* another row has (primary key), a new id for a row that comments reference
\* (foreign key, no ON UPDATE action).
UpdateThrows(id, updates) ==
    /\ variant = "db"
    /\ \/ "createdAt" \in DOMAIN updates
       \/ /\ "id" \in DOMAIN updates
          /\ Stored(id)
          /\ updates.id /= id
          /\ (Stored(updates.id) \/ CommentsOf(id) /= {})

\* ------------------------------------------------------------------ state
Idle == [pc |-> "idle"]

NoResponse == [route |-> "none"]

\* No upload URL yet.
NoURL == [base |-> 0, query |-> ""]

\* uploadFiles has not been called.
NoUpload == [pc |-> "idle", files |-> <<>>, k |-> 0, uploadURL |-> NoURL,
             results |-> <<>>, log |-> <<>>]

\* onSubmit has not been called for this submission.
NoSubmit == [pc |-> "idle", upload |-> NoUpload, attachments |-> <<>>,
             toast |-> "none", request |-> 0, overlaps |-> FALSE]

\* The create-request form as mounted: no file selected, nothing submitted, no
\* create request sent.
NoForm == [selectedFiles |-> <<>>, submits |-> [s \in 1..MaxSubmits |-> NoSubmit],
           requests |-> <<>>, latest |-> 0]

\* The query cache as the page mounts: nothing fetched, no search typed, no
\* mutation started or settled.
NoMutation == [pc |-> "idle", kind |-> "none", id |-> 0, body |-> << >>,
               seen |-> NoResponse]

NoCache == [queries |-> << >>, searchQuery |-> <<>>, mutation |-> NoMutation,
            settled |-> [kind |-> "none", id |-> 0, ok |-> FALSE], mutations |-> 0]

\* No attachment has been rendered.
NoneShown == [url |-> [objects |-> 0], ok |-> FALSE, src |-> [objects |-> 0]]

Init ==
    /\ variant \in {"mem", "db"}
    /\ serviceRequests = << >>
    /\ comments = << >>
    /\ nextId = 1
    /\ nextCommentId = 1
    /\ now = 0
    /\ calls = [c \in 1..MaxCalls |-> Idle]
    /\ deleting = Idle
    /\ response = NoResponse
    /\ upload = NoUpload
    /\ objectStore = [issued |-> 0, objects |-> << >>]
    /\ form = NoForm
    /\ cache = NoCache
    /\ shown = NoneShown

\* Time passes.
Tick ==
    /\ now < MaxClock
    /\ now' = now + 1
    /\ UNCHANGED <<upload, objectStore, form, cache, shown>>
    /\ UNCHANGED <<variant, serviceRequests, comments, nextId, nextCommentId,
                   calls, deleting, response>>

\* POST /api/service-requests
PostServiceRequest(body) ==
    /\ IF insertServiceRequestSchemaOk(body)
       THEN /\ nextId <= MaxRequests
            /\ createServiceRequest(insertServiceRequestSchema(body))
            /\ response' = [route |-> "POST /api/service-requests", code |-> 201,
                            id |-> nextId, req |-> body]
       ELSE /\ response' = [route |-> "POST /api/service-requests", code |-> 400,
                            id |-> 0, req |-> body]
            /\ UNCHANGED <<serviceRequests, nextId>>
    /\ UNCHANGED <<upload, objectStore, form, cache, shown>>
    /\ UNCHANGED <<variant, comments, nextCommentId, now, calls, deleting>>

\* PATCH /api/service-requests/:id
PatchServiceRequest(id, updates) ==
    /\ IF UpdateThrows(id, updates)
       THEN /\ response' = [route |-> "PATCH /api/service-requests/:id", code |-> 500,
                            id |-> id, req |-> updates]
            /\ UNCHANGED serviceRequests
       ELSE /\ updateServiceRequest(id, updates)
            /\ response' = [route |-> "PATCH /api/service-requests/:id",
                            code |-> IF IsUndefined(Updated(id, updates)) THEN 404 ELSE 200,
                            id |-> id, req |-> updates]
    /\ UNCHANGED <<upload, objectStore, form, cache, shown>>
    /\ UNCHANGED <<variant, comments, nextId, nextCommentId, now, calls, deleting>>

\* POST /api/service-requests/:id/comments
PostComment(id, body) ==
    LET data == [serviceRequestId |-> id] @@ body
    IN  /\ IF ~insertCommentSchemaOk(data)
           THEN /\ response' = [route |-> "POST /api/service-requests/:id/comments",
                                code |-> 400, id |-> id, req |-> body]
                /\ UNCHANGED <<comments, nextCommentId>>
           ELSE IF ~ForeignKeyOk(id)
           THEN /\ response' = [route |-> "POST /api/service-requests/:id/comments",
                                code |-> 500, id |-> id, req |-> body]
                /\ UNCHANGED <<comments, nextCommentId>>
           ELSE /\ nextCommentId <= MaxComments
                /\ createComment(insertCommentSchema(data))
                /\ response' = [route |-> "POST /api/service-requests/:id/comments",
                                code |-> 201, id |-> id, req |-> body]
        /\ UNCHANGED <<upload, objectStore, form, cache, shown>>
        /\ UNCHANGED <<variant, serviceRequests, nextId, now, calls, deleting>>

SearchRoute == "GET /api/service-requests/search"

\* GET /api/service-requests/search?q=...
GetSearch(query) ==
    /\ response' = IF query = <<>>
                   THEN [route |-> SearchRoute, code |-> 400, q |-> query,
                         results |-> <<>>]
                   ELSE [route |-> SearchRoute, code |-> 200, q |-> query,
                         results |-> searchServiceRequests(query)]
    /\ UNCHANGED <<upload, objectStore, form, cache, shown>>
    /\ UNCHANGED <<variant, serviceRequests, comments, nextId, nextCommentId, now,
                   calls, deleting>>

\* ------------------------------------------------- attachment append (POST)
\* !attachments || !Array.isArray(attachments)
AttachmentsArrayOk(body) == "attachments" \in DOMAIN body

AppendRoute == "POST /api/service-requests/:id/attachments"

\* Slot c takes the c-th append request of the behaviour.
Free(c) == calls[c].pc = "idle" /\ (IF c = 1 THEN TRUE ELSE calls[c - 1].pc /= "idle")

\* Array.prototype.find(r => r.id === id): the first match, or undefined.
RECURSIVE FindById(_, _)
FindById(seq, id) ==
    IF seq = <<>> THEN Undefined
    ELSE IF Head(seq).id = id THEN Head(seq) ELSE FindById(Tail(seq), id)

\* A variant that skips references the list already holds.
AppendedAttachments_dedup(currentAttachments, attachments) ==
    LET Fresh(ref) == \A i \in 1..Len(currentAttachments) : currentAttachments[i] /= ref
    IN  currentAttachments \o SelectSeq(attachments, Fresh)

\* [...currentAttachments, ...attachments]
AppendedAttachments(currentAttachments, attachments) == currentAttachments \o attachments

\* No other append request is between its read and its write.
NoneInFlight == \A c \in 1..MaxCalls : calls[c].pc /= "write"

\* The handler up to its first query: the payload check, then
\* getAllServiceRequests().find(r => r.id === id) and the copy of its attachments.
\* The Map answers inside the same turn of the event loop, so nothing runs between
\* the read and the write (AppendAtOnce); the database answers later (AppendWrite).
\* "alone" notes whether another append request was in flight at the read.
AppendRead(c, id, body) ==
    /\ Free(c)
    /\ IF ~AttachmentsArrayOk(body)
       THEN /\ calls' = [calls EXCEPT ![c] = [pc |-> "done", id |-> id, req |-> body,
                                             code |-> 400]]
            /\ response' = [route |-> AppendRoute, code |-> 400, id |-> id, req |-> body]
       ELSE IF IsUndefined(FindById(getAllServiceRequests, id))
       THEN /\ calls' = [calls EXCEPT ![c] = [pc |-> "done", id |-> id, req |-> body,
                                             code |-> 404]]
            /\ response' = [route |-> AppendRoute, code |-> 404, id |-> id, req |-> body]
       ELSE LET request == FindById(getAllServiceRequests, id)
            IN  /\ variant = "db"
                /\ Len(request.attachments) + Len(body.attachments) <= MaxAttachments
                /\ calls' = [calls EXCEPT ![c] =
                                [pc |-> "write", id |-> id, req |-> body,
                                 currentAttachments |-> request.attachments,
                                 alone |-> NoneInFlight]]
                /\ UNCHANGED response
    /\ UNCHANGED <<upload, objectStore, form, cache, shown>>
    /\ UNCHANGED <<variant, serviceRequests, comments, nextId, nextCommentId, now,
                   deleting>>

\* A variant that reads the list again at the write (an atomic append).
AppendWrite_reread(c) ==
    /\ calls[c].pc = "write"
    /\ updateServiceRequest(calls[c].id,
           [attachments |-> AppendedAttachments(
                                getServiceRequest(calls[c].id).attachments,
                                calls[c].req.attachments)])
    /\ calls' = [calls EXCEPT ![c] =
                    [pc |-> "done", id |-> calls[c].id, req |-> calls[c].req,
                     currentAttachments |-> calls[c].currentAttachments,
                     alone |-> calls[c].alone, code |-> 200]]
    /\ response' = [route |-> AppendRoute, code |-> 200, id |-> calls[c].id,
                    req |-> calls[c].req]
    /\ UNCHANGED <<upload, objectStore, form, cache, shown>>
    /\ UNCHANGED <<variant, comments, nextId, nextCommentId, now, deleting>>

\* updateServiceRequest(id, { attachments: [...currentAttachments, ...attachments] })
\* and the answer, which is 200 whatever the update returned.
AppendWrite(c) ==
    /\ calls[c].pc = "write"
    /\ updateServiceRequest(calls[c].id,
           [attachments |-> AppendedAttachments(calls[c].currentAttachments,
                                                calls[c].req.attachments)])
    /\ calls' = [calls EXCEPT ![c] =
                    [pc |-> "done", id |-> calls[c].id, req |-> calls[c].req,
                     currentAttachments |-> calls[c].currentAttachments,
                     alone |-> calls[c].alone, code |-> 200]]
    /\ response' = [route |-> AppendRoute, code |-> 200, id |-> calls[c].id,
                    req |-> calls[c].req]
    /\ UNCHANGED <<upload, objectStore, form, cache, shown>>
    /\ UNCHANGED <<variant, comments, nextId, nextCommentId, now, deleting>>

\* The same handler over the Map: read and write in one turn.
AppendAtOnce(c, id, body) ==
    /\ variant = "mem"
    /\ Free(c)
    /\ AttachmentsArrayOk(body)
    /\ ~IsUndefined(FindById(getAllServiceRequests, id))
    /\ LET request == FindById(getAllServiceRequests, id)
       IN  /\ Len(request.attachments) + Len(body.attachments) <= MaxAttachments
           /\ updateServiceRequest(id,
                  [attachments |-> AppendedAttachments(request.attachments,
                                                       body.attachments)])
           /\ calls' = [calls EXCEPT ![c] =
                           [pc |-> "done", id |-> id, req |-> body,
                            currentAttachments |-> request.attachments,
                            alone |-> TRUE, code |-> 200]]
    /\ response' = [route |-> AppendRoute, code |-> 200, id |-> id, req |-> body]
    /\ UNCHANGED <<upload, objectStore, form, cache, shown>>
    /\ UNCHANGED <<variant, comments, nextId, nextCommentId, now, deleting>>

\* ------------------------------------------------- deleteServiceRequest (db)
\* A variant that goes straight to the request and leaves its comments.
DeleteComments_skipped(id) ==
    /\ variant = "db"
    /\ deleting = Idle
    /\ deleting' = [pc |-> "request", id |-> id]
    /\ UNCHANGED <<upload, objectStore, form, cache, shown>>
    /\ UNCHANGED <<variant, serviceRequests, comments, nextId, nextCommentId, now,
                   calls, response>>

\* DELETE FROM comments WHERE service_request_id = $1
DeleteComments(id) ==
    /\ variant = "db"
    /\ deleting = Idle
    /\ comments' = [c \in DOMAIN comments \ CommentsOf(id) |-> comments[c]]
    /\ deleting' = [pc |-> "request", id |-> id]
    /\ UNCHANGED <<upload, objectStore, form, cache, shown>>
    /\ UNCHANGED <<variant, serviceRequests, nextId, nextCommentId, now, calls,
                   response>>

\* DELETE FROM service_requests WHERE id = $1, which the foreign key refuses
\* while a comment still references the row.
DeleteRequest ==
    /\ deleting.pc = "request"
    /\ IF CommentsOf(deleting.id) = {}
       THEN /\ serviceRequests' = [k \in DOMAIN serviceRequests \ Keys(deleting.id) |->
                                      serviceRequests[k]]
            /\ response' = [route |-> "deleteServiceRequest", code |-> "resolved",
                            id |-> deleting.id]
       ELSE /\ response' = [route |-> "deleteServiceRequest", code |-> "rejected",
                            id |-> deleting.id]
            /\ UNCHANGED serviceRequests
    /\ deleting' = Idle
    /\ UNCHANGED <<upload, objectStore, form, cache, shown>>
    /\ UNCHANGED <<variant, comments, nextId, nextCommentId, now, calls>>

\* ------------------------------------------------- uploadFiles (the client)
\* The host of the object store's URLs.
StorageHost == "storage.googleapis.com"

\* The answer of POST /api/objects/upload for the n-th target the store issues: a
\* signed URL, which is the object's URL (the host and the object) and a query.
UploadURL(n) == [base |-> [host |-> StorageHost, object |-> n], query |-> "signature"]

\* uploadURL.split('?')[0]
ObjectURL(uploadURL) == uploadURL.base

\* A reference is a locally-servable path [objects |-> n], an object's URL
\* [host, object], or a URL with a query [base, query].
IsServable(rawPath) == DOMAIN rawPath = {"objects"}

\* A variant that rewrites every reference, a servable path included, into the
\* local serving namespace.
normalizeObjectEntityPath_rewritesAll(rawPath) ==
    IF "base" \in DOMAIN rawPath THEN [objects |-> rawPath.base.object]
    ELSE IF "object" \in DOMAIN rawPath THEN [objects |-> rawPath.object]
    ELSE [objects |-> rawPath.objects, under |-> "objects"]

\* ObjectStorageService.normalizeObjectEntityPath: a locally-servable path is
\* returned unchanged; any other reference loses its query parameters and its
\* host prefix and is rewritten into the local serving namespace.
normalizeObjectEntityPath(rawPath) ==
    IF IsServable(rawPath) THEN rawPath
    ELSE IF "base" \in DOMAIN rawPath THEN [objects |-> rawPath.base.object]
    ELSE [objects |-> rawPath.object]

\* POST /api/normalize-path: res.json({ normalizedPath }).
NormalizedPath(url) == [normalizedPath |-> normalizeObjectEntityPath(url)]

\* POST /api/objects/upload from another caller: the store issues a target.
PostObjectsUpload ==
    /\ objectStore.issued < MaxTargets
    /\ objectStore' = [objectStore EXCEPT !.issued = @ + 1]
    /\ UNCHANGED upload
    /\ UNCHANGED <<form, cache, shown>>
    /\ UNCHANGED <<variant, serviceRequests, comments, nextId, nextCommentId, now,
                   calls, deleting, response>>

\* The step that starts for a file when the step before it has completed.
Started(file, step) == Append(upload.log, [file |-> file, step |-> step])

\* uploadFiles(files): results = [], and the first iteration of the loop up to its
\* first await, the request for an upload target.
UploadFiles(files) ==
    /\ upload.pc = "idle"
    /\ upload' = IF files = <<>>
                 THEN [NoUpload EXCEPT !.pc = "returned"]
                 ELSE [NoUpload EXCEPT !.pc = "target", !.files = files, !.k = 1,
                                       !.log = Started(1, "target")]
    /\ UNCHANGED objectStore
    /\ UNCHANGED <<form, cache, shown>>
    /\ UNCHANGED <<variant, serviceRequests, comments, nextId, nextCommentId, now,
                   calls, deleting, response>>

\* Step 1 settles: the upload URL arrives and the PUT of the file starts, or the
\* request fails and uploadFiles throws.
TargetAnswered(ok) ==
    /\ upload.pc = "target"
    /\ IF ok
       THEN /\ objectStore' = [objectStore EXCEPT !.issued = @ + 1]
            /\ upload' = [upload EXCEPT !.pc = "put",
                                        !.uploadURL = UploadURL(objectStore.issued + 1),
                                        !.log = Started(upload.k, "put")]
       ELSE /\ upload' = [upload EXCEPT !.pc = "thrown"]
            /\ UNCHANGED objectStore
    /\ UNCHANGED <<form, cache, shown>>
    /\ UNCHANGED <<variant, serviceRequests, comments, nextId, nextCommentId, now,
                   calls, deleting, response>>

\* A variant that takes the object's URL for the reference and skips step 3.
PutAnswered_skipsNormalize(ok) ==
    /\ upload.pc = "put"
    /\ IF ok
       THEN /\ objectStore' =
                   [objectStore EXCEPT !.objects =
                       (ObjectURL(upload.uploadURL) :> upload.files[upload.k]) @@ @]
            /\ upload' =
                   IF upload.k < Len(upload.files)
                   THEN [upload EXCEPT !.results = Append(@, ObjectURL(upload.uploadURL)),
                                       !.k = @ + 1, !.pc = "target",
                                       !.log = Started(upload.k + 1, "target")]
                   ELSE [upload EXCEPT !.results = Append(@, ObjectURL(upload.uploadURL)),
                                       !.pc = "returned"]
       ELSE /\ upload' = [upload EXCEPT !.pc = "thrown"]
            /\ UNCHANGED objectStore
    /\ UNCHANGED <<form, cache, shown>>
    /\ UNCHANGED <<variant, serviceRequests, comments, nextId, nextCommentId, now,
                   calls, deleting, response>>

\* Step 2 settles: the object store has the bytes under the object's URL and the
\* request to normalize that URL starts, or the PUT failed (rejected, or answered
\* with a status that is not ok) and uploadFiles throws.
PutAnswered(ok) ==
    /\ upload.pc = "put"
    /\ IF ok
       THEN /\ objectStore' =
                   [objectStore EXCEPT !.objects =
                       (ObjectURL(upload.uploadURL) :> upload.files[upload.k]) @@ @]
            /\ upload' = [upload EXCEPT !.pc = "normalize",
                                        !.log = Started(upload.k, "normalize")]
       ELSE /\ upload' = [upload EXCEPT !.pc = "thrown"]
            /\ UNCHANGED objectStore
    /\ UNCHANGED <<form, cache, shown>>
    /\ UNCHANGED <<variant, serviceRequests, comments, nextId, nextCommentId, now,
                   calls, deleting, response>>

\* Step 3 settles: results.push(normalizedPath), then the next iteration up to its
\* first await, or the return of results; or the request failed and uploadFiles
\* throws.
NormalizeAnswered(ok) ==
    /\ upload.pc = "normalize"
    /\ upload' =
           IF ~ok THEN [upload EXCEPT !.pc = "thrown"]
           ELSE LET normalizedPath ==
                        NormalizedPath(ObjectURL(upload.uploadURL)).normalizedPath
                IN  IF upload.k < Len(upload.files)
                    THEN [upload EXCEPT !.results = Append(@, normalizedPath),
                                        !.k = @ + 1, !.pc = "target",
                                        !.log = Started(upload.k + 1, "target")]
                    ELSE [upload EXCEPT !.results = Append(@, normalizedPath),
                                        !.pc = "returned"]
    /\ UNCHANGED objectStore
    /\ UNCHANGED <<form, cache, shown>>
    /\ UNCHANGED <<variant, serviceRequests, comments, nextId, nextCommentId, now,
                   calls, deleting, response>>

\* One call of uploadFiles, each of whose requests may fail, while other callers
\* take upload targets.
NextUpload ==
    \/ PostObjectsUpload
    \/ \E files \in FileLists : UploadFiles(files)
    \/ \E ok \in BOOLEAN : TargetAnswered(ok)
    \/ \E ok \in BOOLEAN : PutAnswered(ok)
    \/ \E ok \in BOOLEAN : NormalizeAnswered(ok)

SpecUpload == Init /\ [][NextUpload]_vars

\* ------------------------------------------------- the create-request form
\* const [selectedFiles, setSelectedFiles] = useState<File[]>([]), set from the
\* file input.
SelectFiles(files) ==
    /\ form.selectedFiles = <<>>
    /\ files /= <<>>
    /\ form' = [form EXCEPT !.selectedFiles = files]
    /\ UNCHANGED <<upload, objectStore, cache, shown>>
    /\ UNCHANGED <<variant, serviceRequests, comments, nextId, nextCommentId, now,
                   calls, deleting, response>>

\* createRequestMutation.isPending: the mutation the form started last has not
\* settled.
isPending == form.latest /= 0 /\ form.submits[form.latest].pc = "creating"

\* Some submission is between the start of onSubmit and the end of its create
\* call.
InProgress == \E s \in 1..MaxSubmits : form.submits[s].pc \in {"uploading", "creating"}

\* The selections of files the form is submitted with.
FormFiles == {<<"a.png">>, <<"b.png", "a.png">>}

\* The form's values as the resolver hands them to onSubmit.
FormData == PumpX

\* createRequestMutation.mutate({ ...data, attachments }) and
\* setSelectedFiles([]): the form with the create request of submission s sent.
Mutated(s, sub, attachments) ==
    [selectedFiles |-> <<>>,
     submits |-> [form.submits EXCEPT ![s] =
                     [sub EXCEPT !.pc = "creating", !.attachments = attachments,
                                 !.request = Len(form.requests) + 1]],
     requests |-> Append(form.requests, [attachments |-> attachments] @@ FormData),
     latest |-> s]

\* uploadFiles(files) up to its first await.
Called(files) ==
    [NoUpload EXCEPT !.pc = "target", !.files = files, !.k = 1,
                     !.log = <<[file |-> 1, step |-> "target"]>>]

\* onSubmit(data) up to its first await: nothing when a create call is pending;
\* otherwise the upload of the selected files starts or, with no file selected,
\* the create request is sent at once.
OnSubmit(s) ==
    /\ form.submits[s].pc = "idle"
    /\ IF s = 1 THEN TRUE ELSE form.submits[s - 1].pc /= "idle"
    /\ LET sub == [NoSubmit EXCEPT !.overlaps = InProgress]
       IN  form' =
               IF isPending
               THEN [form EXCEPT !.submits[s] = [sub EXCEPT !.pc = "ignored"]]
               ELSE IF Len(form.selectedFiles) > 0
               THEN [form EXCEPT !.submits[s] =
                        [sub EXCEPT !.pc = "uploading",
                                    !.toast = "Uploading files...",
                                    !.upload = Called(form.selectedFiles)]]
               ELSE Mutated(s, sub, <<>>)
    /\ UNCHANGED <<upload, objectStore, cache, shown>>
    /\ UNCHANGED <<variant, serviceRequests, comments, nextId, nextCommentId, now,
                   calls, deleting, response>>

\* The uploadFiles call u once the request it awaited has succeeded: the next
\* step of the file, the next file, or the return of results.
Advanced(u) ==
    IF u.pc = "target"
    THEN [u EXCEPT !.pc = "put", !.uploadURL = UploadURL(objectStore.issued + 1),
                   !.log = Append(@, [file |-> u.k, step |-> "put"])]
    ELSE IF u.pc = "put"
    THEN [u EXCEPT !.pc = "normalize",
                   !.log = Append(@, [file |-> u.k, step |-> "normalize"])]
    ELSE LET normalizedPath == NormalizedPath(ObjectURL(u.uploadURL)).normalizedPath
         IN  IF u.k < Len(u.files)
             THEN [u EXCEPT !.results = Append(@, normalizedPath), !.k = @ + 1,
                            !.pc = "target",
                            !.log = Append(@, [file |-> u.k + 1, step |-> "target"])]
             ELSE [u EXCEPT !.results = Append(@, normalizedPath),
                            !.pc = "returned"]

\* A variant of the loop that asks once more when a request has failed.
Settled_retries(u, ok) ==
    LET step == [file |-> u.k, step |-> u.pc]
        asked == {i \in 1..Len(u.log) : u.log[i] = step}
    IN  IF ok THEN Advanced(u)
        ELSE IF Cardinality(asked) = 1 THEN [u EXCEPT !.log = Append(@, step)]
        ELSE [u EXCEPT !.pc = "thrown"]

\* The uploadFiles call u once the request it awaits has settled: the catch
\* rethrows a failure, and the loop does not go on.
Settled(u, ok) == IF ok THEN Advanced(u) ELSE [u EXCEPT !.pc = "thrown"]

\* What the settled request did to the object store: a target issued, or the
\* file's bytes stored under the object's URL.
Stored_by(u, ok) ==
    IF ok /\ u.pc = "target" THEN [objectStore EXCEPT !.issued = @ + 1]
    ELSE IF ok /\ u.pc = "put"
    THEN [objectStore EXCEPT !.objects = (ObjectURL(u.uploadURL) :> u.files[u.k]) @@ @]
    ELSE objectStore

\* A variant of onSubmit whose catch goes on to the create call with no
\* attachments.
UploadAnswered_createsAnyway(s, ok) ==
    /\ form.submits[s].pc = "uploading"
    /\ LET sub == form.submits[s]
           u == Settled(sub.upload, ok)
       IN  form' =
               IF u.pc \in {"returned", "thrown"}
               THEN Mutated(s, [sub EXCEPT !.upload = u], u.results)
               ELSE [form EXCEPT !.submits[s].upload = u]
    /\ objectStore' = Stored_by(form.submits[s].upload, ok)
    /\ UNCHANGED <<upload, cache, shown>>
    /\ UNCHANGED <<variant, serviceRequests, comments, nextId, nextCommentId, now,
                   calls, deleting, response>>

\* A request that submission s awaits inside uploadFiles settles.  When
\* uploadFiles returns, onSubmit sends the create request with the list returned;
\* when it throws, the catch of onSubmit shows "Upload Failed" and onSubmit ends.
UploadAnswered(s, ok) ==
    /\ form.submits[s].pc = "uploading"
    /\ LET sub == form.submits[s]
           u == Settled(sub.upload, ok)
       IN  form' =
               IF u.pc = "returned"
               THEN Mutated(s, [sub EXCEPT !.upload = u], u.results)
               ELSE IF u.pc = "thrown"
               THEN [form EXCEPT !.submits[s] =
                        [sub EXCEPT !.upload = u, !.pc = "uploadFailed",
                                    !.toast = "Upload Failed"]]
               ELSE [form EXCEPT !.submits[s].upload = u]
    /\ objectStore' = Stored_by(form.submits[s].upload, ok)
    /\ UNCHANGED <<upload, cache, shown>>
    /\ UNCHANGED <<variant, serviceRequests, comments, nextId, nextCommentId, now,
                   calls, deleting, response>>

\* The server has answered the create request of submission s.
Answered(s) == form.submits[s].request < nextId

\* The create call of submission s settles: onSuccess after the server's 201, or
\* onError when the request or its answer was lost.
CreateSettled(s, ok) ==
    /\ form.submits[s].pc = "creating"
    /\ ok => Answered(s)
    /\ form' = [form EXCEPT !.submits[s].pc = IF ok THEN "created" ELSE "createFailed",
                            !.submits[s].toast = IF ok THEN "Success" ELSE "Error"]
    /\ UNCHANGED <<upload, objectStore, cache, shown>>
    /\ UNCHANGED <<variant, serviceRequests, comments, nextId, nextCommentId, now,
                   calls, deleting, response>>

\* The create-request form: files selected, submissions that may overlap, and the
\* server taking the create requests in the order they were sent.
NextForm ==
    \/ \E files \in FormFiles : SelectFiles(files)
    \/ \E s \in 1..MaxSubmits : OnSubmit(s)
    \/ \E s \in 1..MaxSubmits, ok \in BOOLEAN : UploadAnswered(s, ok)
    \/ nextId <= Len(form.requests) /\ PostServiceRequest(form.requests[nextId])
    \/ \E s \in 1..MaxSubmits, ok \in BOOLEAN : CreateSettled(s, ok)

SpecForm == Init /\ [][NextForm]_vars

\* ------------------------------------------------- the client's query cache
\* The query keys of the page.
ActiveKey == [path |-> "/api/service-requests/active", id |-> 0, q |-> <<>>]

CompletedKey == [path |-> "/api/service-requests/completed", id |-> 0, q |-> <<>>]

MetricsKey == [path |-> "/api/metrics", id |-> 0, q |-> <<>>]

\* ["/api/service-requests", requestId, "comments"]
CommentsKey(id) == [path |-> "/api/service-requests/:id/comments", id |-> id, q |-> <<>>]

\* ["/api/service-requests/search", { q: searchQuery }]
SearchKey(q) == [path |-> "/api/service-requests/search", id |-> 0, q |-> q]

\* What the server answers to the GET of a query.
Result(key) ==
    IF key = ActiveKey THEN getActiveServiceRequests
    ELSE IF key = CompletedKey THEN getCompletedServiceRequests
    ELSE IF key = MetricsKey THEN getMetrics
    ELSE IF key.path = "/api/service-requests/search" THEN searchServiceRequests(key.q)
    ELSE getCommentsByServiceRequestId(key.id)

\* The queries the page has mounted: the two lists and the metrics, the comments
\* of every request it shows, and the search while a query is typed
\* (enabled: !!searchQuery).
Mounted ==
    {ActiveKey, CompletedKey, MetricsKey}
    \cup {CommentsKey(id) : id \in 1..(nextId - 1)}
    \cup {SearchKey(cache.searchQuery) : x \in {cache.searchQuery} \ {<<>>}}

\* A mounted query fetches for the first time, or again once it was invalidated.
Fetch(key) ==
    /\ key \in Mounted
    /\ key \in DOMAIN cache.queries => cache.queries[key].isInvalidated
    /\ cache' = [cache EXCEPT !.queries =
                    (key :> [data |-> Result(key), isInvalidated |-> FALSE]) @@ @]
    /\ UNCHANGED <<upload, objectStore, form, shown>>
    /\ UNCHANGED <<variant, serviceRequests, comments, nextId, nextCommentId, now,
                   calls, deleting, response>>

\* setSearchQuery(e.target.value), and handleClearSearch with the empty query.
SetSearchQuery(q) ==
    /\ cache.searchQuery /= q
    /\ cache' = [cache EXCEPT !.searchQuery = q]
    /\ UNCHANGED <<upload, objectStore, form, shown>>
    /\ UNCHANGED <<variant, serviceRequests, comments, nextId, nextCommentId, now,
                   calls, deleting, response>>

PatchRoute == "PATCH /api/service-requests/:id"

CreateRoute == "POST /api/service-requests"

CommentRoute == "POST /api/service-requests/:id/comments"

DeleteClientRoute == "DELETE /api/service-requests/:id"

\* The method and path each mutation of the page requests.
RouteOf(kind) ==
    CASE kind = "create" -> CreateRoute
      [] kind = "delete" -> DeleteClientRoute
      [] kind \in {"updateStatus", "updateRequest"} -> PatchRoute
      [] kind = "addComment" -> CommentRoute
      [] kind = "addAttachments" -> AppendRoute

\* mutation.mutate(...): the mutationFn sends its request.  (A request equal to
\* the one the server answered last is left out: its answer could not be told
\* from that one.)
Mutate(kind, id, body) ==
    /\ cache.mutation.pc = "idle"
    /\ cache.mutations < MaxMutations
    /\ id < nextId
    /\ ~(response.route = RouteOf(kind) /\ response.id = id /\ response.req = body)
    /\ cache' = [cache EXCEPT !.mutation = [pc |-> "sent", kind |-> kind, id |-> id,
                                            body |-> body, seen |-> response],
                              !.mutations = @ + 1]
    /\ UNCHANGED <<upload, objectStore, form, shown>>
    /\ UNCHANGED <<variant, serviceRequests, comments, nextId, nextCommentId, now,
                   calls, deleting, response>>

\* The request of the mutation in flight has reached the server and has not been
\* answered.
Sent(kind) ==
    /\ cache.mutation.pc = "sent"
    /\ cache.mutation.kind = kind
    /\ response = cache.mutation.seen

\* The routes registerRoutes gives the app.
RegisteredRoutes ==
    {"GET /api/service-requests", "GET /api/service-requests/active",
     "GET /api/service-requests/completed", "GET /api/service-requests/search",
     "POST /api/service-requests", "PATCH /api/service-requests/:id",
     "GET /api/service-requests/:id/comments",
     "POST /api/service-requests/:id/comments", "GET /api/metrics",
     "POST /api/objects/upload", "GET /objects/:objectPath(*)",
     "POST /api/normalize-path", "POST /api/service-requests/:id/attachments",
     "PUT /api/service-requests/:id/attachments"}

\* A request for a method and path that registerRoutes has given no handler: no
\* provider method runs, and what comes back (the 404 of the framework, or the
\* page a front-end fallback serves) is not the JSON of a success.
Unrouted(route, id, body) ==
    /\ route \notin RegisteredRoutes
    /\ response' = [route |-> route, code |-> 404, id |-> id, req |-> body]
    /\ UNCHANGED <<upload, objectStore, form, cache, shown>>
    /\ UNCHANGED <<variant, serviceRequests, comments, nextId, nextCommentId, now,
                   calls, deleting>>

\* invalidateQueries({ queryKey }) for each of the keys.
Invalidated(keys) ==
    [k \in DOMAIN cache.queries |->
        IF k \in keys THEN [cache.queries[k] EXCEPT !.isInvalidated = TRUE]
        ELSE cache.queries[k]]

\* The keys the onSuccess of each mutation invalidates.
InvalidatedBy(kind, id) ==
    CASE kind \in {"create", "delete", "updateStatus", "updateRequest"} ->
             {ActiveKey, CompletedKey, MetricsKey}
      [] kind = "addComment" -> {ActiveKey, CompletedKey, CommentsKey(id)}
      [] kind = "addAttachments" -> {ActiveKey, CompletedKey}

\* The answer arrives and the mutation settles: onSuccess invalidates its keys,
\* onError (any answer that is not a success) invalidates nothing.
MutationSettled ==
    /\ cache.mutation.pc = "sent"
    /\ response /= cache.mutation.seen
    /\ LET m == cache.mutation
           ok == response.code \in {200, 201}
       IN  cache' = [cache EXCEPT
                        !.mutation = NoMutation,
                        !.settled = [kind |-> m.kind, id |-> m.id, ok |-> ok],
                        !.queries = IF ok THEN Invalidated(InvalidatedBy(m.kind, m.id))
                                    ELSE @]
    /\ UNCHANGED <<upload, objectStore, form, shown>>
    /\ UNCHANGED <<variant, serviceRequests, comments, nextId, nextCommentId, now,
                   calls, deleting, response>>

\* The search the user types.
Typed == <<"b">>

\* createRequestSchema.parse: insertServiceRequestSchema with attachments
\* defaulting to [].
createRequestSchema(values) ==
    LET insert == insertServiceRequestSchema(values)
    IN  [key \in DOMAIN insert \cup {"attachments"} |->
            IF key \in DOMAIN insert THEN insert[key] ELSE <<>>]

\* The values of the edit form after the user's changes: the five text fields
\* that handleEditRequest reset it to.
EditValues ==
    [productName |-> <<"c">>, serialNumber |-> <<"b">>, customerName |-> <<"b">>,
     customerContact |-> <<"b", "b">>, issueDescription |-> <<"c">>]

\* onEditSubmit(data): data is what the resolver made of the form's values.
EditData == createRequestSchema(EditValues)

\* The page: its queries, its search box and its mutations, one at a time, with
\* the server answering each.
NextCache ==
    \/ \E key \in Mounted : Fetch(key)
    \/ \E q \in {Typed, <<>>} : SetSearchQuery(q)
    \/ Mutate("create", 0, createRequestSchema(Widget))
    \/ \E id \in Ids : Mutate("updateStatus", id, [status |-> "completed"])
    \/ \E id \in Ids : Mutate("updateRequest", id, EditData)
    \/ \E id \in Ids : Mutate("addComment", id, [text |-> "hello", attachments |-> <<>>])
    \/ \E id \in Ids : Mutate("addAttachments", id, [attachments |-> <<"ref1">>])
    \/ \E id \in Ids : Mutate("delete", id, << >>)
    \/ Sent("create") /\ PostServiceRequest(cache.mutation.body)
    \/ Sent("updateStatus") /\ PatchServiceRequest(cache.mutation.id, cache.mutation.body)
    \/ Sent("updateRequest") /\ PatchServiceRequest(cache.mutation.id, cache.mutation.body)
    \/ Sent("addComment") /\ PostComment(cache.mutation.id, cache.mutation.body)
    \/ /\ Sent("addAttachments")
       /\ NoneInFlight
       /\ \E c \in 1..MaxCalls : AppendRead(c, cache.mutation.id, cache.mutation.body)
    \/ \E c \in 1..MaxCalls : AppendWrite(c)
    \/ /\ Sent("addAttachments")
       /\ \E c \in 1..MaxCalls : AppendAtOnce(c, cache.mutation.id, cache.mutation.body)
    \/ /\ Sent("delete")
       /\ Unrouted(DeleteClientRoute, cache.mutation.id, cache.mutation.body)
    \/ MutationSettled

SpecCache == Init /\ [][NextCache]_vars

\* ------------------------------------------------- the catch of each route
\* The routes whose catch answers 500 (the two that serve objects answer 404).
Throwing == RegisteredRoutes \ {"GET /objects/:objectPath(*)"}

\* error.message of what the persistence layer or the object store threw.
Messages == {"connect ECONNREFUSED 127.0.0.1:5432", "PRIVATE_OBJECT_DIR not set"}

\* The JSON a route's catch sends with status 500.
InternalServerError(route, message) ==
    IF route = "POST /api/objects/upload"
    THEN [error |-> "Internal server error", details |-> message]
    ELSE [error |-> "Internal server error"]

\* A request whose handler catches an error of the provider or of the object
\* store: console.error(..., error), then the 500.
Thrown(route, message) ==
    /\ route \in Throwing
    /\ response' = [route |-> route, code |-> 500,
                    body |-> InternalServerError(route, message), logged |-> message]
    /\ UNCHANGED <<upload, objectStore, form, cache, shown>>
    /\ UNCHANGED <<variant, serviceRequests, comments, nextId, nextCommentId, now,
                   calls, deleting>>

\* The API with a persistence layer and an object store that may fail.
NextErrors ==
    \/ Tick
    \/ PostServiceRequest(PumpX)
    \/ \E id \in Ids : PatchServiceRequest(id, [status |-> "completed"])
    \/ \E route \in Throwing, message \in Messages : Thrown(route, message)

SpecErrors == Init /\ [][NextErrors]_vars

\* ------------------------------------------------- attachment references
\* An object whose name holds the text of the store's host.
HostNamed == 0

\* The references a record's attachments may hold: servable paths, URLs of objects
\* at the store or elsewhere, and signed URLs.
ObjectURLs == [host : {StorageHost, "example.com"}, object : 0..MaxObjects]

References ==
    [objects : 0..MaxObjects]
    \cup ObjectURLs
    \cup [base : ObjectURLs, query : {"signature"}]

\* url.includes('storage.googleapis.com')
IncludesStorageHost(url) ==
    IF IsServable(url) THEN url.objects = HostNamed
    ELSE IF "base" \in DOMAIN url
    THEN url.base.host = StorageHost \/ url.base.object = HostNamed
    ELSE url.host = StorageHost \/ url.object = HostNamed

NormalizeRoute == "POST /api/normalize-path"

\* The answer of POST /api/normalize-path to { url }.
NormalizePathResponse(url) ==
    [route |-> NormalizeRoute, code |-> 200, req |-> url, body |-> NormalizedPath(url)]

\* POST /api/normalize-path
PostNormalizePath(url) ==
    /\ response' = NormalizePathResponse(url)
    /\ UNCHANGED <<upload, objectStore, form, cache, shown>>
    /\ UNCHANGED <<variant, serviceRequests, comments, nextId, nextCommentId, now,
                   calls, deleting>>

\* normalizeAttachmentUrl(url): a url without the store's host is returned as it
\* is; otherwise the server is asked, and the url is returned as it is when the
\* request fails or the answer is not ok.
normalizeAttachmentUrl(url, ok) ==
    IF ~IncludesStorageHost(url) THEN url
    ELSE IF ok THEN NormalizePathResponse(url).body.normalizedPath
    ELSE url

\* An attachment is rendered: the client resolves its reference, through the
\* server when the reference holds the store's host and the request succeeds.
NormalizeAttachmentUrl(url, ok) ==
    /\ shown' = [url |-> url, ok |-> ok, src |-> normalizeAttachmentUrl(url, ok)]
    /\ response' = IF IncludesStorageHost(url) /\ ok THEN NormalizePathResponse(url)
                   ELSE response
    /\ UNCHANGED <<upload, objectStore, form, cache>>
    /\ UNCHANGED <<variant, serviceRequests, comments, nextId, nextCommentId, now,
                   calls, deleting>>

\* References of every kind normalized by the server and resolved by the client.
NextNormalize ==
    \/ \E url \in References : PostNormalizePath(url)
    \/ \E url \in References, ok \in BOOLEAN : NormalizeAttachmentUrl(url, ok)

SpecNormalize == Init /\ [][NextNormalize]_vars

\* The requests API: create and update, with every status a payload may carry.
Next ==
    \/ Tick
    \/ \E body \in CreateBodies : PostServiceRequest(body)
    \/ \E id \in Ids, updates \in StatusPatches : PatchServiceRequest(id, updates)

Spec == Init /\ [][Next]_vars

\* Updates of every kind of field, beside other requests and comments (one comment
\* fewer than the bound allows: their order plays no part here).
NextFrame ==
    \/ Tick
    \/ PostServiceRequest(PumpX)
    \/ \E id \in Ids, updates \in FieldPatches : PatchServiceRequest(id, updates)
    \/ \E id \in Ids : nextCommentId < MaxComments /\ PostComment(id, [text |-> "hello"])

SpecFrame == Init /\ [][NextFrame]_vars

\* Creates, updates and deletes.
NextDelete ==
    \/ Tick
    \/ \E body \in {PumpX, [status |-> "received"] @@ PumpX} : PostServiceRequest(body)
    \/ \E id \in Ids : PatchServiceRequest(id, [status |-> "completed"])
    \/ \E id \in Ids : nextCommentId < MaxComments /\ PostComment(id, [text |-> "hello"])
    \/ \E id \in Ids : DeleteComments(id)
    \/ DeleteRequest

SpecDelete == Init /\ [][NextDelete]_vars

\* Attachment appends, which overlap over the database, among creates and updates.
NextAppend ==
    \/ PostServiceRequest(PumpX)
    \/ \E id \in Ids : PatchServiceRequest(id, [status |-> "bogus"])
    \/ \E c \in 1..MaxCalls, id \in Ids, body \in AppendBodies : AppendRead(c, id, body)
    \/ \E c \in 1..MaxCalls : AppendWrite(c)
    \/ \E c \in 1..MaxCalls, id \in Ids, body \in AppendBodies : AppendAtOnce(c, id, body)

SpecAppend == Init /\ [][NextAppend]_vars

\* Status updates beside attachment appends on the same records.
NextStatusAppend ==
    \/ PostServiceRequest(PumpX)
    \/ \E id \in Ids : PatchServiceRequest(id, [status |-> "completed"])
    \/ \E c \in 1..MaxCalls, id \in Ids, r \in Refs :
          AppendRead(c, id, [attachments |-> <<r>>])
    \/ \E c \in 1..MaxCalls : AppendWrite(c)
    \/ \E c \in 1..MaxCalls, id \in Ids, r \in Refs :
          AppendAtOnce(c, id, [attachments |-> <<r>>])

SpecStatusAppend == Init /\ [][NextStatusAppend]_vars

\* Attachment appends among updates that give a request another id.
NextAppendRoute ==
    \/ PostServiceRequest(PumpX)
    \/ \E id \in Ids : PatchServiceRequest(id, [id |-> ForeignId])
    \/ \E c \in 1..MaxCalls, id \in Ids \cup {ForeignId}, body \in AppendBodies :
          AppendRead(c, id, body)
    \/ \E c \in 1..MaxCalls : AppendWrite(c)
    \/ \E c \in 1..MaxCalls, id \in Ids \cup {ForeignId}, body \in AppendBodies :
          AppendAtOnce(c, id, body)

SpecAppendRoute == Init /\ [][NextAppendRoute]_vars

\* Updates whose payload names the server's own fields, among creates and
\* comments.  A payload's id is the foreign one or one the server has allotted.
NextIdentity ==
    \/ Tick
    \/ PostServiceRequest(PumpX)
    \/ \E id \in Ids \cup {ForeignId}, updates \in IdentityPatches :
          /\ "id" \in DOMAIN updates => updates.id < nextId
          /\ PatchServiceRequest(id, updates)
    \/ \E id \in Ids :
          /\ id < nextId
          /\ nextCommentId < MaxComments
          /\ PostComment(id, [text |-> "hello"])

SpecIdentity == Init /\ [][NextIdentity]_vars

\* Requests and comments made at different times, and updates that move a request
\* to the completed list or (over the Map) to another place in time.
NextOrder ==
    \/ Tick
    \/ PostServiceRequest(Widget)
    \/ \E id \in Ids, updates \in {[status |-> "completed"], [createdAt |-> 0]} :
          PatchServiceRequest(id, updates)
    \/ \E id \in Ids : id < nextId /\ PostComment(id, [text |-> "hello"])

SpecOrder == Init /\ [][NextOrder]_vars

\* Searches over requests whose text holds letters of both cases and wildcards.
NextSearch ==
    \/ \E body \in SearchBodies : PostServiceRequest(body)
    \/ \E query \in Queries : GetSearch(query)

SpecSearch == Init /\ [][NextSearch]_vars

\* Comments on stored and on unknown requests, beside what could leave a comment
\* without its request: a delete, an update of a request's id.
NextComments ==
    \/ PostServiceRequest(PumpX)
    \/ \E id \in Ids, i \in Ids \cup {ForeignId} :
          /\ i < nextId
          /\ PatchServiceRequest(id, [id |-> i])
    \/ \E id \in Ids \cup {ForeignId}, body \in CommentBodies :
          /\ id < nextId
          /\ PostComment(id, body)
    \/ \E id \in Ids : DeleteComments(id)
    \/ DeleteRequest

SpecComments == Init /\ [][NextComments]_vars

\* ------------------------------------------------------------------ claims
Range(seq) == {seq[i] : i \in 1..Len(seq)}

\* The list holds a record with this id.
InList(list, id) == \E i \in 1..Len(list) : list[i].id = id

\* C1: the active list and the completed list partition the list of all requests:
\* no record is in both, every record of listAll is in one of them, and neither
\* holds a record that listAll lacks.
C1_ListsPartition ==
    LET all == getAllServiceRequests
        active == getActiveServiceRequests
        completed == getCompletedServiceRequests
    IN  /\ Range(active) \cap Range(completed) = {}
        /\ Range(active) \cup Range(completed) = Range(all)
        /\ Len(active) + Len(completed) = Len(all)

\* An update has just succeeded and both lists hold a record.
C1_Witness ==
    /\ response.route = PatchRoute
    /\ response.code = 200
    /\ Len(getActiveServiceRequests) = 1
    /\ Len(getCompletedServiceRequests) = 1

\* C2: the status of every stored service request is one of new, inspection,
\* service, received, completed, whatever the payloads of the API calls were.
C2_StatusEnumerated ==
    \A id \in DOMAIN serviceRequests : serviceRequests[id].status \in Statuses

\* C3: the write of an attachment append installs the list it read earlier followed
\* by its own references and answers success, whatever the record holds by then:
\* nothing checks that the record still has the list that was read.
C3_WriteInstallsSnapshot ==
    [][\A c \in 1..MaxCalls :
          AppendWrite(c) =>
              /\ response'.code = 200
              /\ calls[c].id \in DOMAIN serviceRequests =>
                     serviceRequests'[calls[c].id].attachments =
                         calls[c].currentAttachments \o calls[c].req.attachments]_vars

\* Two appends on one record read the same prior list and both answered 200, and
\* the stored list has the second one's reference but not the first one's.
C3_LostUpdate ==
    \E c1, c2 \in 1..MaxCalls :
        /\ c1 /= c2
        /\ calls[c1].pc = "done" /\ calls[c1].code = 200
        /\ calls[c2].pc = "done" /\ calls[c2].code = 200
        /\ calls[c1].id = calls[c2].id
        /\ calls[c1].id \in DOMAIN serviceRequests
        /\ calls[c1].currentAttachments = calls[c2].currentAttachments
        /\ calls[c1].req.attachments = <<"ref1">>
        /\ calls[c2].req.attachments = <<"ref2">>
        /\ "ref2" \in Range(serviceRequests[calls[c1].id].attachments)
        /\ "ref1" \notin Range(serviceRequests[calls[c1].id].attachments)

\* An append request that no other append request overlaps: none was in flight
\* when it read, and none has started since.
NotOverlapped(c) ==
    /\ calls[c].alone
    /\ \A d \in 1..MaxCalls : d > c => calls[d].pc = "idle"

\* C4: an attachment append that overlaps no other leaves the record with the list
\* it had before followed by the call's references, in order, duplicates kept.
C4_SequentialAppendsConcatenate ==
    [][/\ \A c \in 1..MaxCalls :
              (AppendWrite(c) /\ NotOverlapped(c)
                  /\ calls[c].id \in DOMAIN serviceRequests) =>
                  serviceRequests'[calls[c].id].attachments =
                      serviceRequests[calls[c].id].attachments \o calls[c].req.attachments
       /\ \A c \in 1..MaxCalls, id \in Ids, body \in AppendBodies :
              AppendAtOnce(c, id, body) =>
                  serviceRequests'[id].attachments =
                      serviceRequests[id].attachments \o body.attachments]_vars

\* ["ref1"] then ["ref2"] were appended one after the other to an empty list, and
\* the record holds ["ref1", "ref2"].
C4_Witness ==
    /\ calls[1].pc = "done" /\ calls[1].code = 200
    /\ calls[2].pc = "done" /\ calls[2].code = 200
    /\ calls[1].id = calls[2].id
    /\ calls[1].alone /\ calls[2].alone
    /\ calls[1].currentAttachments = <<>>
    /\ calls[1].req.attachments = <<"ref1">>
    /\ calls[2].currentAttachments = <<"ref1">>
    /\ calls[2].req.attachments = <<"ref2">>
    /\ serviceRequests[calls[1].id].attachments = <<"ref1", "ref2">>

\* C5: the four status counters of the metrics sum to totalActive.
C5_CountersSumToTotalActive ==
    LET m == getMetrics
    IN  m.newComplaints + m.underInspection + m.sentToService + m.received
            = m.totalActive

\* The number of stored requests whose status is in the set.
WithStatus(statuses) ==
    Cardinality({id \in DOMAIN serviceRequests : serviceRequests[id].status \in statuses})

\* C6: the metrics are those of the current record set: totalActive is the length
\* of the active list and the number of stored requests that are not completed,
\* and each status counter is the number of stored requests with that status, so
\* that a completed request is counted nowhere.
C6_MetricsFromCurrentRecords ==
    LET m == getMetrics
        stored == WithStatus({serviceRequests[id].status : id \in DOMAIN serviceRequests})
    IN  /\ m.totalActive = Len(getActiveServiceRequests)
        /\ m.totalActive = stored - WithStatus({"completed"})
        /\ m.newComplaints = WithStatus({"new"})
        /\ m.underInspection = WithStatus({"inspection"})
        /\ m.sentToService = WithStatus({"service"})
        /\ m.received = WithStatus({"received"})

\* A delete has just removed a request, and the request that remains is completed:
\* no counter counts it.
C6_Witness ==
    /\ response.route = "deleteServiceRequest"
    /\ response.code = "resolved"
    /\ \E id \in DOMAIN serviceRequests : serviceRequests[id].status = "completed"
    /\ getMetrics.totalActive = 0

\* C7: a create stores status new when the payload has no status and the supplied
\* status when it is one of the five; attachments are empty when the payload has
\* none, and the supplied list otherwise.
C7_CreateDefaults ==
    (response.route = CreateRoute /\ response.code = 201) =>
        LET stored == serviceRequests[response.id]
            body == response.req
        IN  /\ "status" \notin DOMAIN body => stored.status = "new"
            /\ ("status" \in DOMAIN body /\ body.status \in Statuses) =>
                   stored.status = body.status
            /\ "attachments" \notin DOMAIN body => stored.attachments = <<>>
            /\ "attachments" \in DOMAIN body => stored.attachments = body.attachments

\* A create with status received and no attachments has just been answered.
C7_Witness ==
    /\ response.route = CreateRoute
    /\ response.code = 201
    /\ "status" \in DOMAIN response.req
    /\ response.req.status = "received"
    /\ "attachments" \notin DOMAIN response.req
    /\ serviceRequests[response.id].status = "received"

\* C8: once an update of an existing record's status to completed is answered, the
\* record is in the completed list and not in the active list; once an update to
\* any other status is answered, it is in the active list and not in the completed
\* list.
C8_StatusUpdateMovesRecord ==
    (response.route = PatchRoute /\ response.code = 200
        /\ "status" \in DOMAIN response.req) =>
        IF response.req.status = "completed"
        THEN /\ InList(getCompletedServiceRequests, response.id)
             /\ ~InList(getActiveServiceRequests, response.id)
        ELSE /\ InList(getActiveServiceRequests, response.id)
             /\ ~InList(getCompletedServiceRequests, response.id)

\* An update to inspection has just been answered and the record is in the active
\* list, while another record, updated to completed before, is in the completed list.
C8_Witness ==
    /\ response.route = PatchRoute
    /\ response.code = 200
    /\ response.req.status = "inspection"
    /\ InList(getActiveServiceRequests, response.id)
    /\ ~InList(getCompletedServiceRequests, response.id)
    /\ \E id \in DOMAIN serviceRequests :
           /\ InList(getCompletedServiceRequests, id)
           /\ serviceRequests[id].updatedAt > serviceRequests[id].createdAt

\* C9: an update of an existing record sets the supplied fields and updatedAt and
\* nothing else: the record loses no field, every field absent from the payload
\* keeps its value, every other request and every comment stays as it was.
C9_UpdateFrame ==
    [][\A id \in Ids, updates \in FieldPatches :
          (/\ id \in DOMAIN serviceRequests
           /\ response'.route = PatchRoute
           /\ response'.id = id
           /\ response'.req = updates
           /\ PatchServiceRequest(id, updates)) =>
              /\ DOMAIN serviceRequests' = DOMAIN serviceRequests
              /\ DOMAIN serviceRequests[id] \subseteq DOMAIN serviceRequests'[id]
              /\ \A f \in DOMAIN serviceRequests[id] \ (DOMAIN updates \cup {"updatedAt"}) :
                     serviceRequests'[id][f] = serviceRequests[id][f]
              /\ \A f \in DOMAIN updates \ {"updatedAt"} :
                     serviceRequests'[id][f] = updates[f]
              /\ serviceRequests'[id].updatedAt = now
              /\ \A other \in DOMAIN serviceRequests \ {id} :
                     serviceRequests'[other] = serviceRequests[other]
              /\ comments' = comments]_vars

\* An update of two text fields has just been answered for a record that keeps the
\* status and the attachments an earlier update gave it, beside another request
\* and a comment.
C9_Witness ==
    /\ response.route = PatchRoute
    /\ response.code = 200
    /\ "customerName" \in DOMAIN response.req
    /\ serviceRequests[response.id].customerName = "Beta"
    /\ serviceRequests[response.id].status = "completed"
    /\ serviceRequests[response.id].attachments = <<"ref2">>
    /\ serviceRequests[response.id].productName = "Pump-X"
    /\ Cardinality(DOMAIN serviceRequests) = 2
    /\ DOMAIN comments /= {}

\* C10: an update for an id that names no stored record returns undefined, changes
\* no request and no comment, and the PATCH route answers 404.
C10_UpdateOfMissingId ==
    [][\A id \in Ids, updates \in StatusPatches :
          (id \notin DOMAIN serviceRequests /\ PatchServiceRequest(id, updates)) =>
              /\ IsUndefined(Updated(id, updates))
              /\ serviceRequests' = serviceRequests
              /\ comments' = comments
              /\ response'.code = 404]_vars

\* A PATCH for an id that is not stored has just been answered 404 while another
\* request is stored.
C10_Witness ==
    /\ response.route = PatchRoute
    /\ response.code = 404
    /\ response.id \notin DOMAIN serviceRequests
    /\ DOMAIN serviceRequests /= {}

\* C11: the id of a service request is immutable and unique: every stored record's
\* id field is the identifier it was created and is kept under, and no two stored
\* records have the same id, whatever the create and update payloads were.
C11_IdImmutableAndUnique ==
    /\ \A k \in DOMAIN serviceRequests : serviceRequests[k].id = k
    /\ \A k1, k2 \in DOMAIN serviceRequests :
           serviceRequests[k1].id = serviceRequests[k2].id => k1 = k2

\* C12: the createdAt of a stored service request is the same after every step as
\* before it, whatever fields an update payload carries.
C12_CreatedAtNeverChanges ==
    [][\A k \in DOMAIN serviceRequests \cap DOMAIN serviceRequests' :
          serviceRequests'[k].createdAt = serviceRequests[k].createdAt]_vars

\* C13: a search with a non-empty query returns a stored record if and only if the
\* query, compared without regard to case, is a substring of its customerContact,
\* serialNumber, customerName or productName, for every character the query may
\* hold and under either provider; the issueDescription does not count.
C13_SearchSemantics ==
    (response.route = SearchRoute /\ response.code = 200) =>
        \A k \in DOMAIN serviceRequests :
            InList(response.results, k) <=>
                \E field \in SearchableFields :
                    includes(toLowerCase(serviceRequests[k][field]),
                             toLowerCase(response.q))

NewestFirst(list) ==
    \A i, j \in 1..Len(list) : i < j => list[i].createdAt >= list[j].createdAt

OldestFirst(list) ==
    \A i, j \in 1..Len(list) : i < j => list[i].createdAt <= list[j].createdAt

C15_DeleteCascades ==
    [][/\ \A id \in Ids :
              DeleteComments(id) =>
                  /\ \A c \in DOMAIN comments' : comments'[c].serviceRequestId /= id
                  /\ \A c \in DOMAIN comments :
                         comments[c].serviceRequestId /= id =>
                             c \in DOMAIN comments' /\ comments'[c] = comments[c]
                  /\ serviceRequests' = serviceRequests
       /\ (DeleteRequest /\ response'.code = "resolved") =>
              /\ \A c \in DOMAIN comments : comments[c].serviceRequestId /= deleting.id
              /\ comments' = comments
              /\ \A k \in DOMAIN serviceRequests' : serviceRequests'[k].id /= deleting.id
              /\ \A k \in DOMAIN serviceRequests :
                     serviceRequests[k].id /= deleting.id =>
                         k \in DOMAIN serviceRequests'
                             /\ serviceRequests'[k] = serviceRequests[k]]_vars

\* A delete has completed for a request that had a comment, and another request
\* and its comment are still stored.
C15_Witness ==
    /\ response.route = "deleteServiceRequest"
    /\ response.code = "resolved"
    /\ nextCommentId > MaxComments
    /\ Cardinality(DOMAIN comments) = 1
    /\ \A k \in DOMAIN serviceRequests : serviceRequests[k].id /= response.id
    /\ \E c \in DOMAIN comments : ForeignKeyOk(comments[c].serviceRequestId)
    /\ DOMAIN serviceRequests /= {}

\* The comments of the table all reference a stored request.
CommentsReferenceRequests ==
    variant = "db" => \A c \in DOMAIN comments : Stored(comments[c].serviceRequestId)

\* C16: in the persisted variant every stored comment references a stored request
\* in every reachable state, and a valid comment for an id that names no stored
\* request is rejected and stores nothing; the in-memory variant accepts it and
\* stores it.
C16_CommentsReferenceRequests ==
    [][/\ CommentsReferenceRequests
       /\ CommentsReferenceRequests'
       /\ \A id \in Ids \cup {ForeignId}, body \in CommentBodies :
              (/\ "text" \in DOMAIN body
               /\ ~Stored(id)
               /\ response'.route = CommentRoute
               /\ response'.id = id
               /\ response'.req = body
               /\ PostComment(id, body)) =>
                  IF variant = "db"
                  THEN response'.code = 500 /\ comments' = comments
                  ELSE /\ response'.code = 201
                       /\ \E c \in DOMAIN comments' \ DOMAIN comments :
                              comments'[c].serviceRequestId = id]_vars

\* The table has just refused a comment for an id that names no request, while it
\* holds a request with a comment of its own.
C16_Witness ==
    /\ variant = "db"
    /\ response.route = CommentRoute
    /\ response.code = 500
    /\ ~Stored(response.id)
    /\ "text" \in DOMAIN response.req
    /\ \E c \in DOMAIN comments : Stored(comments[c].serviceRequestId)

\* C17: a comment added with a list of attachment references is returned by
\* listComments with that list, in the same order, and with the empty list when
\* none was supplied.
C17_CommentAttachmentsStored ==
    (response.route = CommentRoute /\ response.code = 201) =>
        LET thread == getCommentsByServiceRequestId(response.id)
        IN  \A i \in 1..Len(thread) :
                thread[i].id = nextCommentId - 1 =>
                    /\ "attachments" \in DOMAIN thread[i]
                    /\ thread[i].attachments =
                           IF "attachments" \in DOMAIN response.req
                           THEN response.req.attachments
                           ELSE <<>>

\* C18: the attachment-append route answers 400 when the payload's attachments is
\* missing or no array, and 404 when the id names no stored record, leaving the
\* store as it was in both cases; it answers 200 only when the update it made
\* returned the updated record.
C18_AppendRouteAnswers ==
    [][/\ \A c \in 1..MaxCalls, id \in Ids \cup {ForeignId}, body \in AppendBodies :
              /\ (AppendRead(c, id, body) /\ ~AttachmentsArrayOk(body)) =>
                     response'.code = 400 /\ serviceRequests' = serviceRequests
              /\ (AppendRead(c, id, body) /\ AttachmentsArrayOk(body) /\ ~Stored(id)) =>
                     response'.code = 404 /\ serviceRequests' = serviceRequests
              /\ AppendAtOnce(c, id, body) =>
                     /\ Stored(id)
                     /\ serviceRequests'[KeyOf(id)] = Updated(id,
                            [attachments |-> AppendedAttachments(
                                 getServiceRequest(id).attachments, body.attachments)])
       /\ \A c \in 1..MaxCalls :
              AppendWrite(c) =>
                  /\ Stored(calls[c].id)
                  /\ ~IsUndefined(Updated(calls[c].id,
                         [attachments |-> AppendedAttachments(
                              calls[c].currentAttachments, calls[c].req.attachments)]))]_vars

\* C19: on the same stored records and with the same arguments the in-memory
\* provider and the relational provider return the same results: the same records
\* in the same order from a search, the same record from an update.
C19_ProvidersAgree ==
    /\ \A query \in Queries \ {<<>>} :
           MemStorage_searchServiceRequests(query)
               = DatabaseStorage_searchServiceRequests(query)
    /\ \A k \in DOMAIN serviceRequests :
           \A updates \in {[status |-> "completed"], [priority |-> "high"]} :
               MergedBy("mem", serviceRequests[k], updates)
                   = MergedBy("db", serviceRequests[k], updates)

StepNames == <<"target", "put", "normalize">>

\* C20: uploadFiles takes the files one at a time and, for each, requests an upload
\* target, uploads the bytes to it and normalizes the reference, in this order;
\* the first step of a file starts only after the third step of the file before
\* it, and the list returned holds, in the files' order, the normalized reference
\* of the object that holds each file.
C20_UploadSequential ==
    /\ \A i \in 1..Len(upload.log) :
           upload.log[i] = [file |-> ((i - 1) \div 3) + 1,
                            step |-> StepNames[((i - 1) % 3) + 1]]
    /\ upload.pc = "returned" =>
           /\ Len(upload.log) = 3 * Len(upload.files)
           /\ Len(upload.results) = Len(upload.files)
           /\ \A k \in 1..Len(upload.files) :
                  \E url \in DOMAIN objectStore.objects :
                      /\ objectStore.objects[url] = upload.files[k]
                      /\ upload.results[k] = normalizeObjectEntityPath(url)
                      /\ \A j \in 1..Len(upload.files) :
                             j /= k => upload.results[j] /= upload.results[k]

\* uploadFiles has returned for two different files, after another caller took an
\* upload target between its two files.
C20_Witness ==
    /\ upload.pc = "returned"
    /\ upload.files = <<"b.png", "a.png">>
    /\ Len(upload.results) = 2
    /\ upload.results[1] = normalizeObjectEntityPath(ObjectURL(UploadURL(1)))
    /\ upload.results[2] = normalizeObjectEntityPath(ObjectURL(UploadURL(3)))
    /\ objectStore.objects[ObjectURL(UploadURL(3))] = "a.png"

\* uploadFiles threw at the file after those whose references it had collected,
\* and started no step for a later file and no step twice.
StoppedAtFailure(u) ==
    /\ u.k = Len(u.results) + 1
    /\ \A i \in 1..Len(u.log) : u.log[i].file <= u.k
    /\ \A i, j \in 1..Len(u.log) : i /= j => u.log[i] /= u.log[j]

\* C21: when a step fails for some file partway through a multi-file upload, the
\* caller obtains the partial list of references collected for the files that
\* completed before the failure, and no step is run or retried for the failed
\* file or any later file.
C21_CallerObtainsPartialList ==
    \A s \in 1..MaxSubmits :
        form.submits[s].upload.pc = "thrown" =>
            /\ form.submits[s].attachments = form.submits[s].upload.results
            /\ StoppedAtFailure(form.submits[s].upload)

\* C21, amended: when a step fails for some file partway through a multi-file
\* upload, uploadFiles throws and the caller obtains no list, the references
\* collected for the files before the failure are dropped with the call, and no
\* step is run or retried for the failed file or any later file.
C21_FailedUploadYieldsNoList ==
    \A s \in 1..MaxSubmits :
        form.submits[s].upload.pc = "thrown" =>
            /\ form.submits[s].attachments = <<>>
            /\ \A i \in 1..Len(form.requests) :
                   form.requests[i].attachments /= form.submits[s].upload.results
                       \/ form.submits[s].upload.results = <<>>
            /\ StoppedAtFailure(form.submits[s].upload)

\* The upload of two files failed at the second file's PUT, after the first
\* file's reference had been collected.
C21_Witness ==
    \E s \in 1..MaxSubmits :
        /\ form.submits[s].upload.pc = "thrown"
        /\ Len(form.submits[s].upload.files) = 2
        /\ Len(form.submits[s].upload.results) = 1
        /\ Len(form.submits[s].upload.log) = 5

\* C26: while one submission of the create-request form is in progress, from the
\* start of its file-upload phase until its create call has settled, a second
\* submission of the form is ignored, so overlapping submits never produce more
\* than one create request.
C26_OverlappingSubmitIgnored ==
    \A s \in 1..MaxSubmits :
        form.submits[s].overlaps =>
            /\ form.submits[s].pc = "ignored"
            /\ form.submits[s].request = 0

\* C29: in the create-request form flow, when the upload of any selected file
\* fails no create request is sent and the failure is shown as "Upload Failed",
\* which is not what a failed create call shows; a create request is sent only
\* after every selected file has been uploaded and normalized, and it carries
\* their references.
C29_UploadFailureSendsNoCreate ==
    \A s \in 1..MaxSubmits :
        LET sub == form.submits[s]
        IN  /\ sub.upload.pc = "thrown" =>
                   /\ sub.request = 0
                   /\ sub.pc = "uploadFailed"
                   /\ sub.toast = "Upload Failed"
            /\ sub.pc = "createFailed" =>
                   /\ sub.request /= 0
                   /\ sub.toast = "Error"
            /\ sub.request /= 0 =>
                   /\ sub.upload.pc = IF sub.upload.files = <<>> THEN "idle"
                                      ELSE "returned"
                   /\ form.requests[sub.request].attachments = sub.attachments
                   /\ Len(sub.attachments) = Len(sub.upload.files)
                   /\ \A k \in 1..Len(sub.upload.files) :
                          \E url \in DOMAIN objectStore.objects :
                              /\ objectStore.objects[url] = sub.upload.files[k]
                              /\ sub.attachments[k] = normalizeObjectEntityPath(url)

\* One submission ended at a failed upload with no create request sent, and a
\* later one uploaded both files and sent its create request, which failed.
C29_Witness ==
    /\ form.submits[1].pc = "uploadFailed"
    /\ form.submits[1].toast = "Upload Failed"
    /\ form.submits[2].pc = "createFailed"
    /\ form.submits[2].toast = "Error"
    /\ Len(form.submits[2].attachments) = 2
    /\ Len(form.requests) = 1

\* C22: after every successful client mutation (create, status update, edit, add
\* comment, add attachments, delete) every cached query whose result the mutation
\* can change (the active list, the completed list, the metrics, the request's
\* comments, and the search results while a search is active) is invalidated:
\* once the mutation has settled, no mounted query keeps a copy that differs from
\* what the server would answer without being marked for a refetch.
C22_MutationsInvalidate ==
    cache.mutation.pc = "idle" =>
        \A key \in DOMAIN cache.queries \cap Mounted :
            cache.queries[key].data /= Result(key) =>
                cache.queries[key].isInvalidated

\* C30: a delete issued from the client (DELETE /api/service-requests/{id}) is
\* served by the API and reaches the provider's delete operation: the client's
\* delete mutation settles with success, and then the record is in neither the
\* active nor the completed list.
C30_ClientDeleteServed ==
    cache.settled.kind = "delete" =>
        /\ cache.settled.ok
        /\ ~InList(getActiveServiceRequests, cache.settled.id)
        /\ ~InList(getCompletedServiceRequests, cache.settled.id)

\* C23: every 500 response of the API carries only the generic error message and
\* no detail of the error, whichever route failed (the upload-target issuance
\* route included); the detail goes to the server log only.
C23_GenericMessageOnly ==
    "body" \in DOMAIN response =>
        (response.code = 500 =>
            /\ response.body = [error |-> "Internal server error"]
            /\ response.logged \in Messages)

C25_EditKeepsAttachmentsAndStatus ==
    [][\A id \in Ids :
          (/\ id \in DOMAIN serviceRequests
           /\ Sent("updateRequest")
           /\ cache.mutation.id = id
           /\ PatchServiceRequest(id, cache.mutation.body))
          => /\ serviceRequests'[id].attachments = serviceRequests[id].attachments
             /\ serviceRequests'[id].status = serviceRequests[id].status]_vars

\* C27: in the persisted variant deleteServiceRequest is all-or-nothing, also when
\* a createComment for the same request runs between its two steps: a call that
\* leaves the request stored has removed none of its comments.  (Stated while one
\* request has been created, so that every comment ever stored is a comment of
\* that request, and comment ids count them.)
C27_DeleteAllOrNothing ==
    (/\ variant = "db"
     /\ nextId = 2
     /\ response.route = "deleteServiceRequest"
     /\ Stored(response.id))
    => Cardinality(DOMAIN comments) = nextCommentId - 1

\* C28: a PATCH that carries only a status and an attachment append on the same
\* record lose neither change, in either order and also when the PATCH runs
\* between the append's read and its write: the PATCH sets the status and keeps
\* the attachments, and the append's write (or the append done at once) keeps
\* the status and installs the list it read followed by its own references.
C28_StatusAndAppendBothKept ==
    [][\A id \in DOMAIN serviceRequests :
          LET before == serviceRequests[id]
              after == serviceRequests'[id]
              Own(c) == calls'[c].currentAttachments \o calls'[c].req.attachments
          IN  /\ (/\ response'.route = PatchRoute
                  /\ response'.id = id
                  /\ PatchServiceRequest(id, [status |-> "completed"]))
                 => /\ after.status = "completed"
                    /\ after.attachments = before.attachments
              /\ \A c \in 1..MaxCalls :
                    (/\ calls[c].pc /= "done"
                     /\ calls'[c].pc = "done"
                     /\ calls'[c].code = 200
                     /\ calls'[c].id = id)
                    => /\ after.status = before.status
                       /\ after.attachments = Own(c)]_vars

\* Over the database a request has both the status that a PATCH gave it and the
\* reference that an append added, the append being the one to complete last.
C28_Witness ==
    \E c \in 1..MaxCalls :
        /\ variant = "db"
        /\ calls[c].pc = "done"
        /\ calls[c].code = 200
        /\ calls[c].alone
        /\ calls[c].id \in DOMAIN serviceRequests
        /\ serviceRequests[calls[c].id].status = "completed"
        /\ serviceRequests[calls[c].id].attachments = <<"ref1">>
        /\ response.route = AppendRoute

====
